---- MODULE Spec2Model ----
(***************************************************************************)
(* Capital-call escrow contract (src/src/contract.rs).                     *)
(*                                                                         *)
(* The contract keeps one State record in a storage singleton and exposes  *)
(* instantiate and three execute handlers: CommitCapital, RecallCapital    *)
(* and CallCapital.  Every handler is modelled as a pure operator from     *)
(* (storage, env, info, querier) to (result, storage, messages), exactly   *)
(* in the order of the checks and writes of the Rust code.  The State      *)
(* record is the one contract.rs constructs at lines 24-32 (status, gp,    *)
(* lp_capital_source, admin, capital, shares, due_date_time).              *)
(***************************************************************************)
EXTENDS Integers, Sequences, FiniteSets, TLC

VARIABLES storage, now, markers, last, init_msg, balance, count

vars == <<storage, now, markers, last, init_msg, balance, count>>

(***************************************************************************)
(* Bounds of the model.                                                    *)
(***************************************************************************)
\* Largest whole second of block time and of a due date.
MaxTime == 1
\* Largest coin amount.
MaxAmount == 2
\* Largest number of coins attached to one call.
MaxFunds == 2

(***************************************************************************)
(* Program constants and input sets.                                       *)
(***************************************************************************)
NANOS_PER_SEC == 1000000000

Addrs == {"tp1a", "tp1b", "tp1c"}
\* Addresses are interchangeable: the instantiator is fixed and the other
\* parties range over all addresses, which gives every pattern of equal and
\* distinct parties.
Instantiators == {"tp1a"}
Providers == {"tp1a", "tp1b"}
DistributionAddrs == {"tp1dist"}
MarkerAddrs == {"tp1marker"}

CapitalDenoms == {"cfigure"}
ShareDenoms == {"fund-coin"}
\* Denominations in the order the host sorts attached coins.
DenomOrder == <<"cfigure", "fund-coin">>
Denoms == {DenomOrder[i] : i \in 1..Len(DenomOrder)}

DenomIndex(d) == CHOOSE i \in 1..Len(DenomOrder) : DenomOrder[i] = d

Coin(amount, denom) == [denom |-> denom, amount |-> amount]

\* The capital asked for is the smallest or the largest amount a coin has.
CapitalAmounts == {1, MaxAmount}

\* Amounts of shares: none, which mint_marker_supply rejects, and some.
ShareAmounts == {0, MaxAmount}

\* Coins the host can attach to a call: positive amounts only.
FundCoins == {Coin(a, d) : a \in 1..MaxAmount, d \in Denoms}

\* info.funds as the host delivers it: sorted by denomination, no denomination
\* twice.
RECURSIVE FundsOfLen(_)
FundsOfLen(n) ==
    IF n = 0 THEN {<<>>}
    ELSE {Append(f, c) : f \in FundsOfLen(n - 1), c \in FundCoins}

SortedFunds(f) ==
    \A i \in 1..Len(f) : \A j \in 1..Len(f) :
        i < j => DenomIndex(f[i].denom) < DenomIndex(f[j].denom)

Funds == UNION {{f \in FundsOfLen(n) : SortedFunds(f)} : n \in 0..MaxFunds}

\* Block times in nanoseconds: whole seconds, and one nanosecond after each.
Times == {s * NANOS_PER_SEC + f : s \in 0..MaxTime, f \in {0, 1}}

\* Option<u64>: <<>> is None, <<d>> is Some(d); the due date is the first or
\* the last second of the clock.
DueDates == {<<>>} \cup {<<d>> : d \in {0, MaxTime}}

\* The ledger's marker registry: for each shares denomination, the address of
\* its marker account, or <<>> when no marker is registered.
MarkerRegistries == [ShareDenoms -> {<<>>} \cup {<<a>> : a \in MarkerAddrs}]

InstantiateMsgs ==
    [distribution : DistributionAddrs,
     lp_capital_source : Providers,
     admin : Addrs,
     capital : {Coin(a, d) : a \in CapitalAmounts, d \in CapitalDenoms},
     shares : {Coin(a, d) : a \in ShareAmounts, d \in ShareDenoms},
     due_date_time : DueDates]

MessageInfos == [sender : Addrs, funds : Funds]

\* try_recall_capital and try_call_capital never read info.funds: they are
\* called without funds and with one coin attached.
BareInfos == {i \in MessageInfos : i.funds \in {<<>>, <<Coin(1, "cfigure")>>}}

InstantiateInfos == [sender : Instantiators, funds : {<<>>}]

\* Calls without funds, and calls with at most one coin.
PlainInfos == {i \in MessageInfos : i.funds = <<>>}
SingleCoinInfos == {i \in MessageInfos : Len(i.funds) <= 1}

(***************************************************************************)
(* Status and error messages.                                              *)
(***************************************************************************)
PendingCapital == "PendingCapital"
CapitalCommitted == "CapitalCommitted"
CapitalCalled == "CapitalCalled"

ErrNotFound == "State not found"
ErrNotPending == "contract no longer pending capital"
ErrPastDue == "past due date"
ErrWrongInvestorCommit == "wrong investor committing capital"
ErrNoCapital == "no capital was committed"
ErrCapitalMismatch == "capital does not match required"
ErrNotCommitted == "capital not committed"
ErrWrongInvestorRecall == "wrong investor recalling capital"
ErrWrongGp == "wrong gp calling capital"
ErrMint == "mint amount must be > 0"
ErrWithdraw == "withdraw amount must be > 0"
ErrMarkerQuery == "marker not found"
ErrUnknownVariant == "unknown variant"

Ok(store, messages) == [ok |-> TRUE, err |-> "", storage |-> store, messages |-> messages]
Err(store, e) == [ok |-> FALSE, err |-> e, storage |-> store, messages |-> <<>>]

(***************************************************************************)
(* instantiate                                                             *)
(***************************************************************************)
instantiate(info, msg) ==
    Ok(<<[status |-> PendingCapital,
          gp |-> info.sender,
          lp_capital_source |-> msg.lp_capital_source,
          admin |-> msg.admin,
          capital |-> msg.capital,
          shares |-> msg.shares,
          due_date_time |-> msg.due_date_time]>>,
       <<>>)

\* is_past_due_date with >= for >.
is_past_due_date_inclusive(state, block_time) ==
    IF state.due_date_time # <<>>
    THEN (block_time \div NANOS_PER_SEC) >= state.due_date_time[1]
    ELSE FALSE

\* is_past_due_date with the comparison turned round.
is_past_due_date_reversed(state, block_time) ==
    IF state.due_date_time # <<>>
    THEN (block_time \div NANOS_PER_SEC) < state.due_date_time[1]
    ELSE FALSE

is_past_due_date(state, block_time) ==
    IF state.due_date_time # <<>>
    THEN (block_time \div NANOS_PER_SEC) > state.due_date_time[1]
    ELSE FALSE

(***************************************************************************)
(* provwasm_std helpers called by try_call_capital.  Each returns a        *)
(* StdResult: the message, or an error when an argument is rejected        *)
(* (a zero amount, an empty denomination or address).                      *)
(***************************************************************************)
mint_marker_supply(amount, denom) ==
    IF amount = 0 THEN [ok |-> FALSE, err |-> ErrMint]
    ELSE IF denom = "" THEN [ok |-> FALSE, err |-> ErrMint]
    ELSE [ok |-> TRUE,
          msg |-> [type |-> "MintMarkerSupply", coin |-> Coin(amount, denom)]]

withdraw_coins(marker_denom, amount, denom, recipient) ==
    IF amount = 0 THEN [ok |-> FALSE, err |-> ErrWithdraw]
    ELSE IF marker_denom = "" \/ denom = "" \/ recipient = ""
         THEN [ok |-> FALSE, err |-> ErrWithdraw]
    ELSE [ok |-> TRUE,
          msg |-> [type |-> "WithdrawCoins", marker_denom |-> marker_denom,
                   coin |-> Coin(amount, denom), recipient |-> recipient]]

\* ProvenanceQuerier::get_marker_by_denom: the marker registered for denom, or
\* an error when the ledger has none.
\* get_marker_by_denom that settles for the marker of any denomination.
get_marker_of_any_denom(querier, denom) ==
    IF \E d \in DOMAIN querier : querier[d] # <<>>
    THEN [ok |-> TRUE,
          address |-> querier[CHOOSE d \in DOMAIN querier : querier[d] # <<>>][1]]
    ELSE [ok |-> FALSE, err |-> ErrMarkerQuery]

get_marker_by_denom(querier, denom) ==
    IF denom \in DOMAIN querier /\ querier[denom] # <<>>
    THEN [ok |-> TRUE, address |-> querier[denom][1]]
    ELSE [ok |-> FALSE, err |-> ErrMarkerQuery]

BankSend(to_address, amount) ==
    [type |-> "BankSend", to_address |-> to_address, amount |-> amount]

(***************************************************************************)
(* try_commit_capital                                                      *)
(***************************************************************************)
commit_status_ok(state) == state.status = PendingCapital

commit_sender_ok_or_admin(state, info) ==
    info.sender = state.lp_capital_source \/ info.sender = state.admin

commit_sender_ok(state, info) == info.sender = state.lp_capital_source

deposit_matches_denom_only(deposit, capital) == deposit.denom = capital.denom

deposit_matches(deposit, capital) == deposit = capital

\* commit_update that also hands the admin role to the capital source.
commit_update_takes_admin(state) ==
    [state EXCEPT !.status = CapitalCommitted, !.admin = state.lp_capital_source]

commit_update(state) == [state EXCEPT !.status = CapitalCommitted]

try_commit_capital(store, block_time, info) ==
    IF store = <<>> THEN Err(store, ErrNotFound)
    ELSE LET state == store[1] IN
         IF ~commit_status_ok(state) THEN Err(store, ErrNotPending)
         ELSE IF is_past_due_date(state, block_time) THEN Err(store, ErrPastDue)
         ELSE IF ~commit_sender_ok(state, info) THEN Err(store, ErrWrongInvestorCommit)
         ELSE IF info.funds = <<>> THEN Err(store, ErrNoCapital)
         ELSE IF ~deposit_matches(Head(info.funds), state.capital)
              THEN Err(store, ErrCapitalMismatch)
         ELSE Ok(<<commit_update(state)>>, <<>>)

(***************************************************************************)
(* try_recall_capital                                                      *)
(***************************************************************************)
recall_status_ok_not_called(state) == state.status # CapitalCalled

recall_status_ok(state) == state.status = CapitalCommitted

recall_sender_ok(state, info) ==
    info.sender = state.lp_capital_source \/ info.sender = state.admin

recall_update_called(state) == [state EXCEPT !.status = CapitalCalled]

recall_update(state) == [state EXCEPT !.status = PendingCapital]

recall_messages_to_sender(state, info) ==
    <<BankSend(info.sender, <<state.capital>>)>>

recall_messages(state, info) ==
    <<BankSend(state.lp_capital_source, <<state.capital>>)>>

\* try_recall_capital with the caller checked before the status and the date.
try_recall_capital_sender_first(store, block_time, info) ==
    IF store = <<>> THEN Err(store, ErrNotFound)
    ELSE LET state == store[1] IN
         IF ~recall_sender_ok(state, info) THEN Err(store, ErrWrongInvestorRecall)
         ELSE IF ~recall_status_ok(state) THEN Err(store, ErrNotCommitted)
         ELSE IF is_past_due_date(state, block_time) THEN Err(store, ErrPastDue)
         ELSE Ok(<<recall_update(state)>>, recall_messages(state, info))

try_recall_capital(store, block_time, info) ==
    IF store = <<>> THEN Err(store, ErrNotFound)
    ELSE LET state == store[1] IN
         IF ~recall_status_ok(state) THEN Err(store, ErrNotCommitted)
         ELSE IF is_past_due_date(state, block_time) THEN Err(store, ErrPastDue)
         ELSE IF ~recall_sender_ok(state, info) THEN Err(store, ErrWrongInvestorRecall)
         ELSE Ok(<<recall_update(state)>>, recall_messages(state, info))

(***************************************************************************)
(* try_call_capital.  The status is written to storage (lines 155-158)     *)
(* before the mint and withdraw messages are built and the marker is       *)
(* looked up (lines 160-168); an error from one of those is returned with  *)
(* the storage already updated.                                            *)
(***************************************************************************)
call_status_ok_not_pending(state) == state.status # PendingCapital

call_status_ok(state) == state.status = CapitalCommitted

call_sender_ok(state, info) ==
    info.sender = state.gp \/ info.sender = state.admin

\* call_update that leaves the capital committed.
call_update_stays_committed(state) == [state EXCEPT !.status = CapitalCommitted]

call_update(state) == [state EXCEPT !.status = CapitalCalled]

call_messages_to_gp(state, mint, withdraw, marker) ==
    <<mint, withdraw, BankSend(state.gp, <<state.capital>>)>>

call_messages(state, mint, withdraw, marker) ==
    <<mint, withdraw, BankSend(marker.address, <<state.capital>>)>>

try_call_capital(store, querier, info) ==
    IF store = <<>> THEN Err(store, ErrNotFound)
    ELSE LET state == store[1] IN
         IF ~call_status_ok(state) THEN Err(store, ErrNotCommitted)
         ELSE IF ~call_sender_ok(state, info) THEN Err(store, ErrWrongGp)
         ELSE LET updated == <<call_update(state)>>
                  mint == mint_marker_supply(state.shares.amount, state.shares.denom)
                  withdraw == withdraw_coins(state.shares.denom, state.shares.amount,
                                             state.shares.denom, state.lp_capital_source)
                  marker == get_marker_by_denom(querier, state.shares.denom)
              IN IF ~mint.ok THEN Err(updated, mint.err)
                 ELSE IF ~withdraw.ok THEN Err(updated, withdraw.err)
                 ELSE IF ~marker.ok THEN Err(updated, marker.err)
                 ELSE Ok(updated, call_messages(state, mint.msg, withdraw.msg, marker))

(***************************************************************************)
(* execute: dispatch on the HandleMsg variant.                             *)
(***************************************************************************)
HandleMsgs == {"CommitCapital", "RecallCapital", "CallCapital"}

\* execute whose CallCapital arm is gated by the due date as the other two are.
execute_call_checks_date(store, block_time, querier, info, msg) ==
    CASE msg = "CommitCapital" -> try_commit_capital(store, block_time, info)
      [] msg = "RecallCapital" -> try_recall_capital(store, block_time, info)
      [] msg = "CallCapital" ->
            IF store # <<>> /\ is_past_due_date(store[1], block_time)
            THEN Err(store, ErrPastDue)
            ELSE try_call_capital(store, querier, info)

execute(store, block_time, querier, info, msg) ==
    CASE msg = "CommitCapital" -> try_commit_capital(store, block_time, info)
      [] msg = "RecallCapital" -> try_recall_capital(store, block_time, info)
      [] msg = "CallCapital" -> try_call_capital(store, querier, info)

(***************************************************************************)
(* The state machine.  storage is the singleton under CONFIG_KEY (<<>>     *)
(* before instantiate), now the current block time, markers the ledger's   *)
(* marker registry, init_msg the InstantiateMsg received, and last the      *)
(* record of the latest call: its inputs, the storage before it, and its   *)
(* result.  balance is the contract's account on the ledger and count the  *)
(* numbers of successful calls; Spec leaves both alone, SpecHeld keeps the *)
(* balance and SpecCount the numbers.                                      *)
(***************************************************************************)
NoCall ==
    [op |-> "None", sender |-> "", funds |-> <<>>, pre |-> <<>>,
     ok |-> FALSE, err |-> "", messages |-> <<>>]

CallRecord(op, info, pre, res) ==
    [op |-> op, sender |-> info.sender, funds |-> info.funds, pre |-> pre,
     ok |-> res.ok, err |-> res.err, messages |-> res.messages]

\* What the host does around a call: it credits info.funds to the contract's
\* account and executes the returned bank messages, or does neither when the
\* call fails.
Credit(bal, funds) ==
    [d \in Denoms |->
        bal[d] + (IF \E i \in DOMAIN funds : funds[i].denom = d
                  THEN (CHOOSE c \in {funds[i] : i \in DOMAIN funds} : c.denom = d).amount
                  ELSE 0)]

RECURSIVE Debit(_, _)
Debit(bal, messages) ==
    IF messages = <<>> THEN bal
    ELSE LET m == Head(messages) IN
         Debit(IF m.type = "BankSend"
               THEN [d \in Denoms |->
                       bal[d] - (IF m.amount[1].denom = d THEN m.amount[1].amount ELSE 0)]
               ELSE bal,
               Tail(messages))

Settle(bal, funds, ok, messages) ==
    IF ok THEN Debit(Credit(bal, funds), messages) ELSE bal

NoBalance == [d \in Denoms |-> 0]

NoCount == [commits |-> 0, recalls |-> 0, calls |-> 0]

Tally(cnt, op, ok) ==
    IF ~ok THEN cnt
    ELSE CASE op = "CommitCapital" -> [cnt EXCEPT !.commits = @ + 1]
           [] op = "RecallCapital" -> [cnt EXCEPT !.recalls = @ + 1]
           [] op = "CallCapital" -> [cnt EXCEPT !.calls = @ + 1]

Init ==
    /\ storage = <<>>
    /\ now = 0
    /\ markers \in MarkerRegistries
    /\ last = NoCall
    /\ init_msg = <<>>
    /\ balance = NoBalance
    /\ count = NoCount

\* The ledger produces a later block.
Tick ==
    /\ \E t \in Times : t > now /\ now' = t
    /\ UNCHANGED <<storage, markers, last, init_msg, balance, count>>

\* A marker is registered, replaced or removed on the ledger.
LedgerStep ==
    /\ \E q \in MarkerRegistries : q # markers /\ markers' = q
    /\ UNCHANGED <<storage, now, last, init_msg, balance, count>>

Instantiate ==
    \E info \in InstantiateInfos, msg \in InstantiateMsgs :
        /\ storage = <<>>
        /\ LET res == instantiate(info, msg) IN
             /\ storage' = res.storage
             /\ last' = CallRecord("Instantiate", info, storage, res)
        /\ init_msg' = <<msg>>
        /\ UNCHANGED <<now, markers, balance, count>>

\* One execute call: the handler runs on the storage, the block time and the
\* ledger as they are.
ExecuteStep(msg, info) ==
    /\ LET res == execute(storage, now, markers, info, msg) IN
         /\ storage' = res.storage
         /\ last' = CallRecord(msg, info, storage, res)
    /\ UNCHANGED <<now, markers, init_msg>>

CommitCapital ==
    \E info \in MessageInfos :
        /\ ExecuteStep("CommitCapital", info)
        /\ UNCHANGED <<balance, count>>

RecallCapital ==
    \E info \in BareInfos :
        /\ ExecuteStep("RecallCapital", info)
        /\ UNCHANGED <<balance, count>>

CallCapital ==
    \E info \in BareInfos :
        /\ ExecuteStep("CallCapital", info)
        /\ UNCHANGED <<balance, count>>

\* A message that is no variant of HandleMsg, such as {"cancel":{}}: it does
\* not deserialize, so execute is never entered and nothing is written.
Cancel ==
    \E info \in PlainInfos :
        /\ last' = CallRecord("Cancel", info, storage, Err(storage, ErrUnknownVariant))
        /\ UNCHANGED <<storage, now, markers, init_msg, balance, count>>

Next ==
    \/ Instantiate
    \/ CommitCapital
    \/ RecallCapital
    \/ CallCapital
    \/ Cancel
    \/ Tick
    \/ LedgerStep

Spec == Init /\ [][Next]_vars

(***************************************************************************)
(* Vocabulary of the properties.                                           *)
(***************************************************************************)
Saved == storage # <<>>
State == storage[1]
Pre == last.pre[1]
IsExecute == last.op \in HandleMsgs /\ last.pre # <<>>
\* A step that ran a handler (a call repeated with the same inputs and the
\* same result leaves every variable as it was).
Called == last' # last

Authorized(op, state, sender) ==
    CASE op = "CommitCapital" -> sender = state.lp_capital_source
      [] op = "RecallCapital" -> sender \in {state.lp_capital_source, state.admin}
      [] op = "CallCapital" -> sender \in {state.gp, state.admin}

StatusRight(op, state) ==
    CASE op = "CommitCapital" -> state.status = "PendingCapital"
      [] op = "RecallCapital" -> state.status = "CapitalCommitted"
      [] op = "CallCapital" -> state.status = "CapitalCommitted"

AuthError(op) ==
    CASE op = "CommitCapital" -> "wrong investor committing capital"
      [] op = "RecallCapital" -> "wrong investor recalling capital"
      [] op = "CallCapital" -> "wrong gp calling capital"

StateError(op) ==
    CASE op = "CommitCapital" -> "contract no longer pending capital"
      [] op = "RecallCapital" -> "capital not committed"
      [] op = "CallCapital" -> "capital not committed"

\* The due date has passed for the code: whole seconds of block time exceed it.
DatePassed(state, t) ==
    state.due_date_time # <<>> /\ (t \div NANOS_PER_SEC) > state.due_date_time[1]

(***************************************************************************)
(* C1.  After Initialize the status is PendingCapital, and every later     *)
(* step leaves the status unchanged or moves it along one of the edges     *)
(* PendingCapital -> CapitalCommitted (CommitCapital), CapitalCommitted    *)
(* -> PendingCapital (RecallCapital), CapitalCommitted -> CapitalCalled    *)
(* (CallCapital), {PendingCapital, CapitalCommitted} -> Cancelled          *)
(* (Cancel); no other status change happens.                               *)
(***************************************************************************)
C1_StatusEdges ==
    [][/\ ~Saved /\ Saved' =>
            State'.status = "PendingCapital" /\ last'.op = "Instantiate"
       /\ Saved =>
            /\ Saved'
            /\ \/ State'.status = State.status
               \/ /\ State.status = "PendingCapital"
                  /\ State'.status = "CapitalCommitted"
                  /\ last'.op = "CommitCapital"
               \/ /\ State.status = "CapitalCommitted"
                  /\ State'.status = "PendingCapital"
                  /\ last'.op = "RecallCapital"
               \/ /\ State.status = "CapitalCommitted"
                  /\ State'.status = "CapitalCalled"
                  /\ last'.op = "CallCapital"
               \/ /\ State.status \in {"PendingCapital", "CapitalCommitted"}
                  /\ State'.status = "Cancelled"
                  /\ last'.op = "Cancel"]_vars

\* Capital was committed and recalled: the status is back at PendingCapital.
C1_Witness ==
    /\ Saved /\ State.status = "PendingCapital"
    /\ last.op = "RecallCapital" /\ last.ok
    /\ Pre.status = "CapitalCommitted"

(***************************************************************************)
(* C2.  CallCapital succeeds only from CapitalCommitted, every successful  *)
(* CallCapital sets the status to CapitalCalled, and once the status is    *)
(* CapitalCalled every later CommitCapital, RecallCapital and CallCapital  *)
(* by any caller fails and the status stays CapitalCalled.                 *)
(***************************************************************************)
C2_CallIsTerminal ==
    [][/\ Called /\ last'.op = "CallCapital" /\ last'.ok =>
            /\ Saved /\ State.status = "CapitalCommitted"
            /\ State'.status = "CapitalCalled"
       /\ Saved /\ State.status = "CapitalCalled" =>
            /\ Saved' /\ State'.status = "CapitalCalled"
            /\ Called => ~last'.ok]_vars

\* An operation was attempted after the capital was called, and failed.
C2_Witness ==
    /\ IsExecute /\ Pre.status = "CapitalCalled"
    /\ ~last.ok /\ State.status = "CapitalCalled"

(***************************************************************************)
(* C3.  Every successful CommitCapital starts in PendingCapital, ends in   *)
(* CapitalCommitted, accepted a deposit whose denomination and amount      *)
(* both equal capital exactly, and emits no message; a deposit of another  *)
(* amount or another denomination is rejected.                             *)
(***************************************************************************)
C3_CommitExact ==
    IsExecute /\ last.op = "CommitCapital" =>
        /\ last.ok =>
            /\ Pre.status = "PendingCapital"
            /\ State.status = "CapitalCommitted"
            /\ \E i \in DOMAIN last.funds :
                  /\ last.funds[i].denom = Pre.capital.denom
                  /\ last.funds[i].amount = Pre.capital.amount
            /\ last.messages = <<>>
        /\ (\A i \in DOMAIN last.funds :
               \/ last.funds[i].denom # Pre.capital.denom
               \/ last.funds[i].amount # Pre.capital.amount) => ~last.ok

C3_Witness ==
    /\ IsExecute /\ last.op = "CommitCapital" /\ last.ok
    /\ last.funds = <<Pre.capital>>

(***************************************************************************)
(* C4.  CommitCapital is accepted only with exactly one attached deposit:  *)
(* a call with no deposit, or with two or more deposits, is rejected and   *)
(* the status stays PendingCapital.                                        *)
(***************************************************************************)
C4_ExactlyOneDeposit ==
    IsExecute /\ last.op = "CommitCapital" /\ Len(last.funds) # 1 =>
        ~last.ok /\ storage = last.pre

(***************************************************************************)
(* C5.  Every successful CommitCapital has caller = lp_capital_source;     *)
(* every successful RecallCapital has caller = lp_capital_source or        *)
(* admin; every successful CallCapital has caller = gp or admin.           *)
(***************************************************************************)
C5_WhoMayAct ==
    IsExecute /\ last.ok =>
        /\ last.op = "CommitCapital" => last.sender = Pre.lp_capital_source
        /\ last.op = "RecallCapital" =>
              last.sender = Pre.lp_capital_source \/ last.sender = Pre.admin
        /\ last.op = "CallCapital" =>
              last.sender = Pre.gp \/ last.sender = Pre.admin

\* The admin, who is neither gp nor provider, called the capital.
C5_Witness ==
    /\ IsExecute /\ last.op = "CallCapital" /\ last.ok
    /\ last.sender = Pre.admin
    /\ Pre.admin # Pre.gp /\ Pre.admin # Pre.lp_capital_source

(***************************************************************************)
(* C6.  As claimed: a caller who is not authorized for the action          *)
(* receives the authorization error in every state and at every time.      *)
(***************************************************************************)
C6_AuthErrorAlways ==
    IsExecute /\ ~Authorized(last.op, Pre, last.sender) =>
        ~last.ok /\ last.err = AuthError(last.op)

(***************************************************************************)
(* C6, amended.  A caller who is not authorized for the action is always   *)
(* refused; the error is the state error when the status is wrong for the  *)
(* action, else the past-due error when the due date has passed            *)
(* (CommitCapital and RecallCapital), else the authorization error.        *)
(***************************************************************************)
C6_ErrorOrder ==
    [][Called /\ last'.op \in HandleMsgs /\ Saved
         /\ ~Authorized(last'.op, State, last'.sender) =>
            /\ ~last'.ok
            /\ last'.err =
                 IF ~StatusRight(last'.op, State) THEN StateError(last'.op)
                 ELSE IF last'.op # "CallCapital" /\ DatePassed(State, now)
                      THEN "past due date"
                 ELSE AuthError(last'.op)]_vars

\* An unauthorized caller tried to recall committed capital after the due
\* date and was told that the date has passed.
C6_Witness ==
    /\ IsExecute /\ last.op = "RecallCapital"
    /\ ~Authorized(last.op, Pre, last.sender)
    /\ Pre.status = "CapitalCommitted"
    /\ last.err = "past due date"

(***************************************************************************)
(* C7.  Any CommitCapital, RecallCapital or CallCapital that returns an    *)
(* error leaves the persisted state identical to the state before the      *)
(* call and emits no message.                                              *)
(***************************************************************************)
C7_ErrorChangesNothing ==
    last.op \in HandleMsgs /\ ~last.ok =>
        storage = last.pre /\ last.messages = <<>>

(***************************************************************************)
(* C8.  As claimed: a successful CallCapital emits exactly three messages  *)
(* in this order: mint of shares, withdrawal of the same shares to         *)
(* lp_capital_source, transfer of exactly capital to the configured        *)
(* distribution address.                                                   *)
(***************************************************************************)
C8_ThreeMessagesToDistribution ==
    IsExecute /\ last.op = "CallCapital" /\ last.ok =>
        last.messages =
            <<[type |-> "MintMarkerSupply", coin |-> Pre.shares],
              [type |-> "WithdrawCoins", marker_denom |-> Pre.shares.denom,
               coin |-> Pre.shares, recipient |-> Pre.lp_capital_source],
              [type |-> "BankSend", to_address |-> init_msg[1].distribution,
               amount |-> <<Pre.capital>>]>>

(***************************************************************************)
(* C8, amended.  A successful CallCapital emits exactly three messages in  *)
(* this order: mint of shares, withdrawal of the same shares to            *)
(* lp_capital_source, transfer of exactly capital to the address of the    *)
(* marker that the ledger holds for the shares denomination at the call.   *)
(***************************************************************************)
C8_ThreeMessagesToMarker ==
    [][Called /\ last'.op = "CallCapital" /\ last'.ok =>
            /\ Saved
            /\ State.shares.denom \in DOMAIN markers
            /\ markers[State.shares.denom] # <<>>
            /\ last'.messages =
                 <<[type |-> "MintMarkerSupply", coin |-> State.shares],
                   [type |-> "WithdrawCoins", marker_denom |-> State.shares.denom,
                    coin |-> State.shares, recipient |-> State.lp_capital_source],
                   [type |-> "BankSend",
                    to_address |-> markers[State.shares.denom][1],
                    amount |-> <<State.capital>>]>>]_vars

\* Capital was called and went to a marker address that is not the
\* distribution address of the InstantiateMsg.
C8_Witness ==
    /\ IsExecute /\ last.op = "CallCapital" /\ last.ok
    /\ Len(last.messages) = 3
    /\ last.messages[3].to_address # init_msg[1].distribution

(***************************************************************************)
(* C9.  A successful RecallCapital sets the status from CapitalCommitted   *)
(* to PendingCapital and emits exactly one message, a transfer of exactly  *)
(* capital to lp_capital_source, also when the caller is the admin.        *)
(***************************************************************************)
C9_RecallRefundsProvider ==
    IsExecute /\ last.op = "RecallCapital" /\ last.ok =>
        /\ Pre.status = "CapitalCommitted"
        /\ State.status = "PendingCapital"
        /\ last.messages =
             <<[type |-> "BankSend", to_address |-> Pre.lp_capital_source,
                amount |-> <<Pre.capital>>]>>

\* The admin, who is not the provider, recalled the capital.
C9_Witness ==
    /\ IsExecute /\ last.op = "RecallCapital" /\ last.ok
    /\ last.sender = Pre.admin /\ Pre.admin # Pre.lp_capital_source

(***************************************************************************)
(* C10.  RecallCapital invoked while the status is PendingCapital or       *)
(* CapitalCalled is refused with the state error, changes nothing and      *)
(* emits no refund; a refund is emitted only by a recall that started in   *)
(* CapitalCommitted.                                                       *)
(***************************************************************************)
C10_RecallNeedsCommitted ==
    IsExecute /\ last.op = "RecallCapital" =>
        /\ Pre.status # "CapitalCommitted" =>
              /\ ~last.ok
              /\ last.err = "capital not committed"
              /\ storage = last.pre
              /\ last.messages = <<>>
        /\ last.messages # <<>> => Pre.status = "CapitalCommitted"

\* The provider itself, before the due date, tried to recall capital that
\* was not committed.
C10_Witness ==
    /\ IsExecute /\ last.op = "RecallCapital"
    /\ Pre.status = "PendingCapital"
    /\ last.sender = Pre.lp_capital_source
    /\ ~DatePassed(Pre, now)
    /\ last.err = "capital not committed"

(***************************************************************************)
(* C11.  As claimed: with a due date set, CommitCapital and RecallCapital  *)
(* are refused as past due whenever the block time, in whole seconds, is   *)
(* later than the due date, and are not refused on date grounds when it    *)
(* is equal or earlier; with no due date they are never refused on date    *)
(* grounds.                                                                *)
(***************************************************************************)
C11_RefusedAsPastDue ==
    [][Called /\ last'.op \in {"CommitCapital", "RecallCapital"} /\ Saved =>
            /\ DatePassed(State, now) => ~last'.ok /\ last'.err = "past due date"
            /\ ~DatePassed(State, now) => last'.err # "past due date"]_vars

(***************************************************************************)
(* C11, amended.  With a due date set, CommitCapital and RecallCapital     *)
(* are refused whenever the block time, in whole seconds, is later than    *)
(* the due date; the refusal is the past-due error when the status is      *)
(* right for the action and the state error when it is not.  They are not  *)
(* refused on date grounds when the time is equal or earlier, nor when no  *)
(* due date is set.                                                        *)
(***************************************************************************)
C11_DueDateGate ==
    [][Called /\ last'.op \in {"CommitCapital", "RecallCapital"} /\ Saved =>
            /\ DatePassed(State, now) =>
                  /\ ~last'.ok
                  /\ last'.err = IF StatusRight(last'.op, State)
                                 THEN "past due date"
                                 ELSE StateError(last'.op)
            /\ ~DatePassed(State, now) => last'.err # "past due date"]_vars

\* The provider brought the exact deposit and was refused as past due.
C11_Witness ==
    /\ IsExecute /\ last.op = "CommitCapital"
    /\ last.sender = Pre.lp_capital_source
    /\ last.funds = <<Pre.capital>>
    /\ last.err = "past due date"

(***************************************************************************)
(* C12.  After instantiate, no CommitCapital, RecallCapital or             *)
(* CallCapital, successful or failed, changes capital, shares,             *)
(* due_date_time, lp_capital_source, gp or admin: the status is the only   *)
(* field of the saved state that a call modifies, and the other fields     *)
(* are those of the InstantiateMsg and its sender.                         *)
(***************************************************************************)
C12_OnlyStatusChanges ==
    [][Saved =>
            /\ Saved'
            /\ [State' EXCEPT !.status = State.status] = State
            /\ State'.capital = init_msg[1].capital
            /\ State'.shares = init_msg[1].shares
            /\ State'.due_date_time = init_msg[1].due_date_time
            /\ State'.lp_capital_source = init_msg[1].lp_capital_source
            /\ State'.admin = init_msg[1].admin
            /\ State'.gp \in Instantiators]_vars

\* Capital was committed and then called: the status has moved and every
\* other field is as it was before the call.
C12_Witness ==
    /\ Saved /\ State.status = "CapitalCalled"
    /\ last.op = "CallCapital"
    /\ Pre.status = "CapitalCommitted"
    /\ [State EXCEPT !.status = "CapitalCommitted"] = Pre

(***************************************************************************)
(* C13.  Initialize with a supplied due date that is not strictly later    *)
(* than the creation time (equal to it or in the past) fails and creates   *)
(* no state.                                                               *)
(***************************************************************************)
C13_DueDateValidated ==
    [][/\ Called /\ last'.op = "Instantiate"
       /\ init_msg'[1].due_date_time # <<>>
       /\ init_msg'[1].due_date_time[1] * NANOS_PER_SEC <= now
       => ~last'.ok /\ storage' = <<>>]_vars

(***************************************************************************)
(* C14.  A Cancel action exists: invoked by gp or admin it succeeds from   *)
(* PendingCapital and from CapitalCommitted and sets the status to         *)
(* Cancelled.                                                              *)
(***************************************************************************)
C14_CancelSucceeds ==
    /\ last.op = "Cancel" /\ last.pre # <<>>
    /\ last.sender \in {Pre.gp, Pre.admin}
    /\ Pre.status \in {PendingCapital, CapitalCommitted}
    => last.ok /\ Saved /\ State.status = "Cancelled"

\* The latest call made again on the storage it found, at block time t and
\* against the marker registry q, and whether that gives what the call gave.
Rerun(t, q) ==
    execute(storage, t, q, [sender |-> last'.sender, funds |-> last'.funds], last'.op)
AsObserved(res) ==
    res = [ok |-> last'.ok, err |-> last'.err, storage |-> storage',
           messages |-> last'.messages]
\* Registries of a ledger that also has markers for other denominations.
WiderRegistries == [Denoms -> {<<>>} \cup {<<a>> : a \in MarkerAddrs}]

(***************************************************************************)
(* C15.  A CallCapital by gp or admin from CapitalCommitted succeeds, with *)
(* the same resulting state and the same messages whether the block time   *)
(* is before, equal to or after the due date.                              *)
(***************************************************************************)
C15_CallSucceedsAtAnyTime ==
    [][/\ Called /\ last'.op = "CallCapital" /\ Saved
       /\ State.status = CapitalCommitted
       /\ last'.sender \in {State.gp, State.admin}
       => \A t \in Times : Rerun(t, markers).ok /\ AsObserved(Rerun(t, markers))]_vars

(***************************************************************************)
(* C15 (amended).  The block time is not consulted by CallCapital: every   *)
(* CallCapital has the same outcome (error, or new state and messages) at  *)
(* every block time, before, equal to or after the due date.  By gp or     *)
(* admin from CapitalCommitted it succeeds exactly when the shares amount   *)
(* is positive and a marker is registered for the shares denomination.     *)
(***************************************************************************)
C15_CallIgnoresTime ==
    [][Called /\ last'.op = "CallCapital" /\ Saved =>
            /\ \A t \in Times : AsObserved(Rerun(t, markers))
            /\ State.status = CapitalCommitted /\ last'.sender \in {State.gp, State.admin}
               => (last'.ok <=> /\ State.shares.amount > 0
                                /\ markers[State.shares.denom] # <<>>)]_vars

\* Capital was called with success after the due date had passed.
C15_Witness ==
    /\ IsExecute /\ last.op = "CallCapital" /\ last.ok
    /\ Pre.status = CapitalCommitted
    /\ Saved /\ State.status = CapitalCalled
    /\ DatePassed(Pre, now)
    /\ Len(last.messages) = 3

(***************************************************************************)
(* C16.  For every action the outcome is determined by the persisted       *)
(* state, the caller, the attached deposits, the current time and the      *)
(* action alone, independent of any other ledger data such as the marker   *)
(* registered for the shares denomination.                                 *)
(***************************************************************************)
C16_OutcomeIgnoresLedger ==
    [][Called /\ last'.op \in HandleMsgs /\ Saved =>
            \A q \in MarkerRegistries : AsObserved(Rerun(now, q))]_vars

(***************************************************************************)
(* C16 (amended).  The outcome of CommitCapital and RecallCapital is       *)
(* determined by the persisted state, the caller, the attached deposits,   *)
(* the current time and the action, whatever the ledger holds; the outcome *)
(* of CallCapital is determined by these and the marker the ledger has for *)
(* the shares denomination, and by no other ledger data.                   *)
(***************************************************************************)
C16_OutcomeDetermined ==
    [][Called /\ last'.op \in HandleMsgs /\ Saved =>
            IF last'.op = "CallCapital"
            THEN \A q \in WiderRegistries :
                    q[State.shares.denom] = markers[State.shares.denom]
                    => AsObserved(Rerun(now, q))
            ELSE \A q \in MarkerRegistries : AsObserved(Rerun(now, q))]_vars

\* An authorized CallCapital failed for want of a marker.
C16_Witness ==
    /\ IsExecute /\ last.op = "CallCapital"
    /\ Pre.status = CapitalCommitted
    /\ last.sender \in {Pre.gp, Pre.admin}
    /\ ~last.ok /\ last.err = ErrMarkerQuery

(***************************************************************************)
(* C18.  Lock-in after the due date: with a due date set and a clock that  *)
(* never goes back, once the current time (in whole seconds, as the        *)
(* contract reads it) is later than the due date it stays so, and          *)
(* (a) while the status is PendingCapital no call by any caller succeeds   *)
(* and the status stays PendingCapital; (b) while the status is            *)
(* CapitalCommitted the only call that can succeed is CallCapital by gp or *)
(* admin: RecallCapital is refused, nothing is sent back to the provider,  *)
(* and the status can only stay or become CapitalCalled.                   *)
(***************************************************************************)
C18_LockedAfterDueDate ==
    [][Saved /\ DatePassed(State, now) =>
            /\ Saved' /\ DatePassed(State', now')
            /\ State.status = PendingCapital =>
                  /\ State'.status = PendingCapital
                  /\ Called => ~last'.ok
            /\ State.status = CapitalCommitted =>
                  /\ State'.status \in {CapitalCommitted, CapitalCalled}
                  /\ Called /\ last'.ok =>
                        /\ last'.op = "CallCapital"
                        /\ last'.sender \in {State.gp, State.admin}
                  /\ Called /\ last'.op = "RecallCapital" =>
                        ~last'.ok /\ last'.messages = <<>> /\ storage' = storage]_vars

\* The admin, who is not the provider, asked for the committed capital back
\* after the due date and was refused.
C18_Witness ==
    /\ IsExecute /\ last.op = "RecallCapital"
    /\ Pre.status = CapitalCommitted
    /\ last.sender = Pre.admin /\ Pre.admin # Pre.lp_capital_source
    /\ last.err = ErrPastDue
    /\ Saved /\ State.status = CapitalCommitted /\ DatePassed(State, now)

(***************************************************************************)
(* SpecHeld: the contract together with its account on the ledger.  The    *)
(* host credits info.funds of a successful call to the account and         *)
(* executes the bank messages the call returns, in the same transaction.   *)
(* Deposits arrive with CommitCapital only: RecallCapital and CallCapital  *)
(* are sent without funds.                                                 *)
(***************************************************************************)
MaxBalance == 3

HeldStep(msg, info) ==
    /\ ExecuteStep(msg, info)
    /\ balance' = Settle(balance, info.funds, last'.ok, last'.messages)
    /\ \A d \in Denoms : balance'[d] <= MaxBalance
    /\ UNCHANGED count

HeldCommitCapital == \E info \in MessageInfos : HeldStep("CommitCapital", info)
HeldRecallCapital == \E info \in PlainInfos : HeldStep("RecallCapital", info)
HeldCallCapital == \E info \in PlainInfos : HeldStep("CallCapital", info)

NextHeld ==
    \/ Instantiate
    \/ HeldCommitCapital
    \/ HeldRecallCapital
    \/ HeldCallCapital
    \/ Cancel
    \/ Tick
    \/ LedgerStep

SpecHeld == Init /\ [][NextHeld]_vars

\* What the account should hold for a state: the capital while it is
\* committed, and nothing otherwise.
Escrow(state) ==
    [d \in Denoms |->
        IF state.status = CapitalCommitted /\ state.capital.denom = d
        THEN state.capital.amount
        ELSE 0]

(***************************************************************************)
(* C17.  Escrow conservation: in every reachable state the account holds   *)
(* exactly the capital when the status is CapitalCommitted and nothing     *)
(* when the status is PendingCapital or CapitalCalled; no deposited coin   *)
(* of any denomination remains held after a recall or a call.              *)
(***************************************************************************)
C17_EscrowConserved == Saved => balance = Escrow(State)

(***************************************************************************)
(* SpecCount: the contract with the numbers of successful calls kept.      *)
(* CommitCapital is sent with at most one coin and the other two without   *)
(* funds; the run stops counting after MaxCycles successful commits.       *)
(***************************************************************************)
MaxCycles == 3

CountStep(msg, info) ==
    /\ ExecuteStep(msg, info)
    /\ count' = Tally(count, msg, last'.ok)
    /\ count'.commits <= MaxCycles
    /\ UNCHANGED balance

CountCommitCapital == \E info \in SingleCoinInfos : CountStep("CommitCapital", info)
CountRecallCapital == \E info \in PlainInfos : CountStep("RecallCapital", info)
CountCallCapital == \E info \in PlainInfos : CountStep("CallCapital", info)

NextCount ==
    \/ Instantiate
    \/ CountCommitCapital
    \/ CountRecallCapital
    \/ CountCallCapital
    \/ Cancel
    \/ Tick
    \/ LedgerStep

SpecCount == Init /\ [][NextCount]_vars

(***************************************************************************)
(* C19.  Payout counting: the number of successful RecallCapital calls     *)
(* plus the number of successful CallCapital calls never exceeds the       *)
(* number of successful CommitCapital calls, at most one CallCapital ever  *)
(* succeeds, and the commit/recall cycle can be repeated: after any        *)
(* number of recalls, while the status is PendingCapital and the due date  *)
(* has not passed, a CommitCapital by the provider with the exact deposit  *)
(* succeeds again.                                                         *)
(***************************************************************************)
C19_PayoutCounting ==
    /\ count.recalls + count.calls <= count.commits
    /\ count.calls <= 1
    /\ Saved =>
          /\ State.status = PendingCapital =>
                count.commits = count.recalls /\ count.calls = 0
          /\ State.status = CapitalCommitted =>
                count.commits = count.recalls + 1 /\ count.calls = 0
          /\ State.status = PendingCapital /\ ~DatePassed(State, now) =>
                LET again == try_commit_capital(storage, now,
                                 [sender |-> State.lp_capital_source,
                                  funds |-> <<State.capital>>])
                IN again.ok /\ again.storage[1].status = CapitalCommitted

\* The cycle has gone round MaxCycles times and capital was then called.
C19_Witness ==
    /\ count.commits = MaxCycles
    /\ count.recalls = MaxCycles - 1
    /\ count.calls = 1
    /\ last.op = "CallCapital" /\ last.ok

====
